---- MODULE Spec2Model ----
(***************************************************************************)
(* Credential lifecycle of vibekit-mcp-server: the token file (auth.ts),   *)
(* the refresh operation (auth.ts) and the authenticated request client    *)
(* (api.ts).  One apiRequest runs at a time; each action is the code that  *)
(* runs between two suspension points (awaits) of apiRequest.              *)
(* Times are milliseconds since the epoch, as Date.now() returns them.     *)
(***************************************************************************)
EXTENDS Integers, Sequences, FiniteSets, TLC

\* ---------------------------------------------------------------- bounds
MaxRequests == 2        \* apiRequest calls made in one behaviour
MaxTicks == 2           \* clock advances in one behaviour
MaxOps == 3             \* token-file operations in one behaviour of SpecStore
MaxPolls == 3           \* polls of the token endpoint in one login
MaxLogouts == 1         \* vck_logout calls in one behaviour
MaxSessionRequests == 1 \* apiRequest calls in one behaviour of SpecSession
MaxToolRequests == 2    \* tools/list and tools/call requests in one behaviour

\* ------------------------------------------------------ program constants
BufferMs == 60000       \* api.ts:20  60_000
SlowDownSecs == 5       \* login.ts:88  interval += 5

StartMs == 100000       \* the clock reading in the initial state

\* ------------------------------------------------------------ JS values
Undefined == "undefined"

\* A Date: valid with a time value, or an Invalid Date (time value NaN).
DateOf(ms) == [valid |-> TRUE, ms |-> ms]
InvalidDate == [valid |-> FALSE, ms |-> 0]

\* An ISO-8601 string as written by toISOString (millisecond resolution), or
\* a value that is no date string (undefined): iso = FALSE.
IsoString(ms) == [iso |-> TRUE, ms |-> ms]
NoIsoString == [iso |-> FALSE, ms |-> 0]

\* new Date(s): an ISO string parses to its instant, undefined gives an
\* Invalid Date.
NewDate(s) == IF s.iso THEN DateOf(s.ms) ELSE InvalidDate

\* Date.prototype.toISOString: throws a RangeError on an Invalid Date.
ToISOStringThrows(d) == ~d.valid
ToISOString(d) == IsoString(d.ms)

\* ------------------------------------------------------- the token file
\* What JSON.parse of the file content yields, or why there is none:
\*   "nofile"  the file does not exist          "garbage" not JSON
\*   "null"    the JSON text null               "obj"     a JSON object
\*   "empty"   a file of length 0               "unreadable" readFileSync throws
\* Fields an object lacks are Undefined / NoIsoString.
FileOf(k, a, r, e, u) ==
    [kind |-> k, access_token |-> a, refresh_token |-> r, expires_at |-> e, user |-> u]
NoFile == FileOf("nofile", Undefined, Undefined, NoIsoString, Undefined)
Garbage == FileOf("garbage", Undefined, Undefined, NoIsoString, Undefined)
EmptyFile == FileOf("empty", Undefined, Undefined, NoIsoString, Undefined)
Unreadable == FileOf("unreadable", Undefined, Undefined, NoIsoString, Undefined)
JsonNull == FileOf("null", Undefined, Undefined, NoIsoString, Undefined)
EmptyObject == FileOf("obj", Undefined, Undefined, NoIsoString, Undefined)
TokenData(a, r, e, u) == FileOf("obj", a, r, e, u)

\* The null of `TokenData | null`.
Null == JsonNull

\* A complete TokenData: all four fields present.
IsComplete(t) ==
    /\ t.kind = "obj"
    /\ t.access_token # Undefined
    /\ t.refresh_token # Undefined
    /\ t.expires_at.iso
    /\ t.user # Undefined

\* Variant: unparsable content is read as an empty object instead of null.
loadTokenLenient(file) ==
    IF file.kind = "nofile" THEN Null
    ELSE IF file.kind = "garbage" THEN EmptyObject
    ELSE file

\* existsSync(TOKEN_FILE), auth.ts:28
existsSync(file) == file.kind # "nofile"

\* readFileSync(TOKEN_FILE, "utf-8") throws, auth.ts:32
ReadThrows(file) == file.kind = "unreadable"

\* JSON.parse(data) throws a SyntaxError, auth.ts:33
ParseThrows(file) == file.kind \in {"empty", "garbage"}

\* loadToken up to its catch (auth.ts:28-33): threw says that an exception
\* left the try block, ret is the value returned otherwise (no validation of
\* what JSON.parse returns).
loadTry(file) ==
    IF ~existsSync(file) THEN [threw |-> FALSE, ret |-> Null]
    ELSE IF ReadThrows(file) \/ ParseThrows(file) THEN [threw |-> TRUE, ret |-> Null]
    ELSE [threw |-> FALSE, ret |-> file]

\* Variant: loadToken without its catch.
loadTokenCallNoCatch(file) == loadTry(file)

\* A call of loadToken (auth.ts:27-37): the catch turns every exception of
\* the try block into the return value null.
loadTokenCall(file) ==
    LET r == loadTry(file)
    IN  IF r.threw THEN [threw |-> FALSE, ret |-> Null] ELSE r

\* auth.ts loadToken: null when the file is missing or unparsable, else
\* whatever JSON.parse returns (no validation).
loadToken(file) == loadTokenCall(file).ret

\* Variant: a failing write leaves the file emptied.
saveTokenTruncating(file, tokenData, wok) ==
    [threw |-> ~wok, file |-> IF wok THEN tokenData ELSE Garbage]

\* Variant: the write appends to the file instead of replacing its content.
saveTokenAppending(file, tokenData, wok) ==
    [threw |-> ~wok,
     file |-> IF ~wok THEN file
              ELSE IF file.kind \in {"nofile", "empty"} THEN tokenData
              ELSE Garbage]

\* auth.ts saveToken: writeFileSync either throws when the file cannot be
\* opened for writing (wok = FALSE, nothing written) or replaces the content.
saveToken(file, tokenData, wok) ==
    [threw |-> ~wok, file |-> IF wok THEN tokenData ELSE file]

\* deleteToken up to its catch (auth.ts:47-48): unlinkSync throws ENOENT when
\* the file is absent and removes it otherwise (the directory is the owner's).
deleteTry(file) ==
    IF ~existsSync(file) THEN [threw |-> TRUE, file |-> file]
    ELSE [threw |-> FALSE, file |-> NoFile]

\* Variant: deleteToken without its catch.
deleteTokenCallNoCatch(file) == deleteTry(file)

\* A call of deleteToken (auth.ts:46-52): exceptions are swallowed.
deleteTokenCall(file) ==
    LET r == deleteTry(file)
    IN  IF r.threw THEN [threw |-> FALSE, file |-> r.file] ELSE r

\* `!token` in api.ts:12.
IsFalsy(t) == t.kind = "null"

\* Variant: only a token that has already expired is refreshed (no buffer).
NeedsProactiveRefreshNoBuffer(t, nowMs) ==
    LET expiresAt == NewDate(t.expires_at)
    IN  expiresAt.valid /\ expiresAt.ms - nowMs < 0

\* Variant: the 60 s buffer is converted to milliseconds twice.
NeedsProactiveRefreshUnits(t, nowMs) ==
    LET expiresAt == NewDate(t.expires_at)
    IN  expiresAt.valid /\ expiresAt.ms - nowMs < BufferMs * 1000

\* api.ts:19-20  expiresAt.getTime() - Date.now() < 60_000; a comparison
\* with NaN is false.
NeedsProactiveRefresh(t, nowMs) ==
    LET expiresAt == NewDate(t.expires_at)
    IN  expiresAt.valid /\ expiresAt.ms - nowMs < BufferMs

\* ------------------------------------------------------------ responses
\* Response.ok
Ok(status) == status >= 200 /\ status <= 299

\* What the refresh endpoint can answer.  kind "network": fetch rejects.
\* body "notjson": response.json() rejects.  has_expires_in = FALSE: the
\* payload has no expires_in.  wok: whether the token file can be written.
RefreshResp(k, st, b, a, h, e, w) ==
    [kind |-> k, status |-> st, body |-> b, access_token |-> a,
     has_expires_in |-> h, expires_in |-> e, wok |-> w]
NewAccessTokens == {"A2", "A3"}
ExpiresInSecs == {30, 3600}
RefreshFailures ==
    {RefreshResp("network", 0, "notjson", Undefined, FALSE, 0, TRUE)}
    \cup {RefreshResp("http", 400, "obj", Undefined, FALSE, 0, TRUE)}
    \cup {RefreshResp("http", 200, "notjson", Undefined, FALSE, 0, TRUE)}
    \cup {RefreshResp("http", 200, "obj", "A2", FALSE, 0, TRUE)}
    \cup {RefreshResp("http", 200, "obj", "A2", TRUE, 3600, FALSE)}
RefreshSuccesses ==
    {RefreshResp("http", 200, "obj", a, TRUE, e, TRUE) :
        a \in NewAccessTokens, e \in ExpiresInSecs}
RefreshResponses == RefreshFailures \cup RefreshSuccesses

\* What a resource endpoint can answer.  error: the `error` member of a JSON
\* body, Undefined when it has none.
ResourceResp(k, st, b, err) == [kind |-> k, status |-> st, body |-> b, error |-> err]
ResourceResponses ==
    {ResourceResp("network", 0, "notjson", Undefined)}
    \cup {ResourceResp("http", 200, b, Undefined) : b \in {"obj", "notjson"}}
    \cup {ResourceResp("http", 204, "notjson", Undefined)}
    \cup {ResourceResp("http", st, "obj", err) :
            st \in {401, 500}, err \in {Undefined, "Invalid token"}}

\* ------------------------------------------------- refreshAccessToken
\* new Date(Date.now() + data.expires_in * 1000) (auth.ts:72); a missing
\* expires_in makes the sum NaN and the Date invalid.
ExpiryDate(resp, nowMs) ==
    IF resp.has_expires_in THEN DateOf(nowMs + resp.expires_in * 1000) ELSE InvalidDate

\* Variant: `updated` is built without spreading the input record.
UpdatedNoSpread(token, resp, date) ==
    TokenData(resp.access_token, Undefined, ToISOString(date), Undefined)

\* The record `updated` of auth.ts:69-73: the input with two members replaced.
Updated(token, resp, date) ==
    [token EXCEPT !.access_token = resp.access_token, !.expires_at = ToISOString(date)]

\* Variant: the new access token is merged into the record on file at the
\* time of the save instead of into the record the caller passed.
refreshTryMerging(token, resp, nowMs, file) ==
    IF resp.kind = "network" THEN
        [threw |-> TRUE, ret |-> Null, file |-> file]
    ELSE IF ~Ok(resp.status) THEN
        [threw |-> FALSE, ret |-> Null, file |-> file]
    ELSE IF resp.body = "notjson" THEN
        [threw |-> TRUE, ret |-> Null, file |-> file]
    ELSE IF ToISOStringThrows(ExpiryDate(resp, nowMs)) THEN
        [threw |-> TRUE, ret |-> Null, file |-> file]
    ELSE
        LET updated == Updated(IF file.kind = "obj" THEN file ELSE token,
                               resp, ExpiryDate(resp, nowMs))
            saved == saveToken(file, updated, resp.wok)
        IN  IF saved.threw
            THEN [threw |-> TRUE, ret |-> Null, file |-> saved.file]
            ELSE [threw |-> FALSE, ret |-> updated, file |-> saved.file]

\* The try block of refreshAccessToken (auth.ts:60-76): threw says that an
\* exception left the block, ret is the value returned otherwise.
refreshTry(token, resp, nowMs, file) ==
    IF resp.kind = "network" THEN
        [threw |-> TRUE, ret |-> Null, file |-> file]
    ELSE IF ~Ok(resp.status) THEN
        [threw |-> FALSE, ret |-> Null, file |-> file]
    ELSE IF resp.body = "notjson" THEN
        [threw |-> TRUE, ret |-> Null, file |-> file]
    ELSE IF ToISOStringThrows(ExpiryDate(resp, nowMs)) THEN
        [threw |-> TRUE, ret |-> Null, file |-> file]
    ELSE
        LET updated == Updated(token, resp, ExpiryDate(resp, nowMs))
            saved == saveToken(file, updated, resp.wok)
        IN  IF saved.threw
            THEN [threw |-> TRUE, ret |-> Null, file |-> saved.file]
            ELSE [threw |-> FALSE, ret |-> updated, file |-> saved.file]

\* Variant: no catch, exceptions of the try block reach the caller.
refreshAccessTokenNoCatch(token, resp, nowMs, file) ==
    refreshTry(token, resp, nowMs, file)

\* Variant: the catch also removes the token file.
refreshAccessTokenClearing(token, resp, nowMs, file) ==
    LET r == refreshTry(token, resp, nowMs, file)
    IN  IF r.threw THEN [threw |-> FALSE, ret |-> Null, file |-> NoFile] ELSE r

\* refreshAccessToken with its catch (auth.ts:77-79): every exception of the
\* try block becomes the return value null.
refreshAccessToken(token, resp, nowMs, file) ==
    LET r == refreshTry(token, resp, nowMs, file)
    IN  IF r.threw THEN [threw |-> FALSE, ret |-> Null, file |-> r.file] ELSE r

\* ---------------------------------------------------- apiRequest results
\* The messages of api.ts:14 and api.ts:43 (their backquotes written as ').
NotAuthenticatedMsg ==
    "Not authenticated. Run 'npx vibekit-mcp-server login' to connect your account."
AuthExpiredMsg ==
    "Authentication expired. Run 'npx vibekit-mcp-server login' to reconnect."
FetchFailedMsg == "fetch failed"
JsonSyntaxMsg == "Unexpected token in JSON"

NoResult == [type |-> "none", msg |-> ""]
Threw(m) == [type |-> "error", msg |-> m]
Returned(v) == [type |-> "ok", msg |-> v]

\* error.error || `API error: ${status}` with error = body or {} (api.ts:57-58, 66-67)
ApiErrorMsg(resp) ==
    IF resp.body = "obj" /\ resp.error # Undefined
    THEN resp.error
    ELSE "API error: " \o ToString(resp.status)

\* api.ts:65-71 (and 56-62 for the retry): what a response that is not
\* handled as a 401 makes apiRequest do.
Outcome(resp) ==
    IF resp.kind = "network" THEN Threw(FetchFailedMsg)
    ELSE IF ~Ok(resp.status) THEN Threw(ApiErrorMsg(resp))
    ELSE IF resp.status = 204 THEN Returned("{}")
    ELSE IF resp.body = "notjson" THEN Threw(JsonSyntaxMsg)
    ELSE Returned("body")

\* Authorization: `Bearer ${token.access_token}` of the primary call (api.ts:33)
PrimaryBearer(token) == token.access_token

\* Variant: the retry reuses the header of the primary call.
RetryBearerStale(token, refreshed) == token.access_token

\* Authorization: `Bearer ${refreshed.access_token}` of the retry (api.ts:51)
RetryBearer(token, refreshed) == refreshed.access_token

\* ------------------------------------------------------------- the state
VARIABLES
    store,      \* content of ~/.vibekit/token.json
    now,        \* Date.now()
    ticks,      \* clock advances so far
    nreq,       \* apiRequest calls started so far
    pc,         \* where the running apiRequest is suspended, "idle" or "done"
    token,      \* apiRequest's local variable `token`
    result,     \* how the last apiRequest settled
    calls,      \* history: the fetch calls issued by the running apiRequest
    resps,      \* history: the responses to its resource calls
    refreshes,  \* history: its completed refreshAccessToken calls
    before,     \* history: the store when the running apiRequest started
    startedAt,  \* history: the clock when the running apiRequest started
    issued,     \* history: the record the last login wrote
    ops,        \* history: the token-file operations made directly (SpecStore)
    lpc,        \* where the login script (login.ts main) is suspended
    interval,   \* pollForToken's variable `interval`, in seconds
    lresult,    \* how the login script ended
    flow,       \* history: what the login script did, in order
    lbefore,    \* history: the store when the login script started
    dresp,      \* history: the answer to the device-code request
    env,        \* process.env.VIBEKIT_API_URL
    opc,        \* where the vck_logout handler is suspended
    otoken,     \* vck_logout's local variable `token`
    oresult,    \* what the last vck_logout call gave the host
    olog,       \* history: what the vck_logout handler did, in order
    dmode,      \* permission bits of ~/.vibekit, NoMode when it does not exist
    fmode,      \* permission bits of token.json, NoMode when it does not exist
    umask,      \* the file mode creation mask of the process
    wpc,        \* where a writeFileSync of another process stands
    wdata,      \* the record that writeFileSync is writing
    tlog        \* history: the tools/list and tools/call requests served

\* The variables of the logout handler, of the file system and of the tool
\* dispatcher.
otherVars == <<env, opc, otoken, oresult, olog, dmode, fmode, umask, wpc, wdata, tlog>>

\* The variables of the login script.
scriptVars == <<lpc, interval, lresult, flow, lbefore, dresp>>

\* The variables apiRequest leaves alone, besides ops.
loginVars == <<scriptVars, otherVars>>

vars == <<store, now, ticks, nreq, pc, token, result, calls, resps, refreshes,
          before, startedAt, issued, ops, lpc, interval, lresult, flow, lbefore, dresp,
          env, opc, otoken, oresult, olog, dmode, fmode, umask, wpc, wdata, tlog>>

\* Permission bits: the mode 0o600 is {"ur", "uw"}.
NoMode == {"none"}
Mode600 == {"ur", "uw"}
Mode700 == {"ur", "uw", "ux"}
Mode644 == {"ur", "uw", "gr", "or"}
Mode755 == {"ur", "uw", "ux", "gr", "gx", "or", "ox"}
Umask022 == {"gw", "ow"}

\* The logout handler, the dispatcher and the other writer at rest; the
\* environment variable unset; directory and file with the modes the program
\* gives them.
OthersAtRest ==
    /\ env = Undefined
    /\ opc = "idle"
    /\ otoken = Null
    /\ oresult = NoResult
    /\ olog = <<>>
    /\ dmode = Mode700
    /\ fmode = IF store.kind = "nofile" THEN NoMode ELSE Mode600
    /\ umask = Umask022
    /\ wpc = "idle"
    /\ wdata = Null
    /\ tlog = <<>>

\* Remaining lifetimes of the stored access token in the initial state.
InitialLifetimesMs == {0 - 10000, BufferMs - 1, BufferMs, BufferMs + 1, 3600 * 1000}

\* What the token file can hold before the server starts.
InitialStores ==
    {NoFile, Garbage, JsonNull, EmptyObject}
    \cup {TokenData("A1", "R1", IsoString(StartMs + l), "U1") : l \in InitialLifetimesMs}

Init ==
    /\ store \in InitialStores
    /\ now = StartMs
    /\ ticks = 0
    /\ nreq = 0
    /\ pc = "idle"
    /\ token = Null
    /\ result = NoResult
    /\ calls = <<>>
    /\ resps = <<>>
    /\ refreshes = <<>>
    /\ before = store
    /\ startedAt = now
    /\ issued = store
    /\ ops = <<>>
    /\ lpc = "idle"
    /\ interval = 0
    /\ lresult = NoResult
    /\ flow = <<>>
    /\ lbefore = store
    /\ dresp = [kind |-> "none", status |-> 0, body |-> "notjson",
                error |-> "undefined", interval |-> 0]
    /\ OthersAtRest

Call(ep, phase, cred) == [ep |-> ep, phase |-> phase, cred |-> cred]

\* One completed refreshAccessToken call, for the history.
RefreshEntry(phase, input, resp, r) ==
    [phase |-> phase, input |-> input, resp |-> resp, at |-> now,
     ret |-> r.ret, threw |-> r.threw, pre |-> store, post |-> r.file]

\* The error a rejected refreshAccessToken promise would carry.
UncaughtMsg == "uncaught exception in refreshAccessToken"

\* ------------------------------------------------------------ apiRequest
\* api.ts:11-36, up to the first await: load, the unauthenticated exit, the
\* expiry test, and the fetch (of the refresh or of the resource) it issues.
Start ==
    /\ pc \in {"idle", "done"}
    /\ nreq < MaxRequests
    /\ nreq' = nreq + 1
    /\ before' = store
    /\ startedAt' = now
    /\ resps' = <<>>
    /\ refreshes' = <<>>
    /\ token' = loadToken(store)
    /\ IF IsFalsy(token') THEN
           /\ pc' = "done"
           /\ result' = Threw(NotAuthenticatedMsg)
           /\ calls' = <<>>
       ELSE IF NeedsProactiveRefresh(token', now) THEN
           /\ pc' = "await_proactive"
           /\ result' = NoResult
           /\ calls' = <<Call("refresh", "proactive", token'.refresh_token)>>
       ELSE
           /\ pc' = "await_primary"
           /\ result' = NoResult
           /\ calls' = <<Call("resource", "primary", PrimaryBearer(token'))>>
    /\ UNCHANGED <<store, now, ticks, issued>>
    /\ UNCHANGED <<ops, loginVars>>

\* Variant: a proactive refresh that returns null ends the request.
ProactiveReturnsAbort(resp) ==
    /\ pc = "await_proactive"
    /\ LET r == refreshAccessToken(token, resp, now, store)
       IN  /\ store' = r.file
           /\ refreshes' = Append(refreshes, RefreshEntry("proactive", token, resp, r))
           /\ IF r.threw \/ IsFalsy(r.ret) THEN
                  /\ pc' = "done"
                  /\ result' = Threw(AuthExpiredMsg)
                  /\ UNCHANGED <<token, calls>>
              ELSE
                  /\ token' = r.ret
                  /\ calls' = Append(calls, Call("resource", "primary", PrimaryBearer(token')))
                  /\ pc' = "await_primary"
                  /\ result' = NoResult
    /\ UNCHANGED <<now, ticks, nreq, resps, before, startedAt, issued>>
    /\ UNCHANGED <<ops, loginVars>>

\* Variant: the primary call goes out with the record loaded at the start,
\* whatever the proactive refresh returned.
ProactiveReturnsKeepsToken(resp) ==
    /\ pc = "await_proactive"
    /\ LET r == refreshAccessToken(token, resp, now, store)
       IN  /\ store' = r.file
           /\ refreshes' = Append(refreshes, RefreshEntry("proactive", token, resp, r))
           /\ IF r.threw THEN
                  /\ pc' = "done"
                  /\ result' = Threw(UncaughtMsg)
                  /\ UNCHANGED <<token, calls>>
              ELSE
                  /\ token' = token
                  /\ calls' = Append(calls, Call("resource", "primary", PrimaryBearer(token')))
                  /\ pc' = "await_primary"
                  /\ result' = NoResult
    /\ UNCHANGED <<now, ticks, nreq, resps, before, startedAt, issued>>
    /\ UNCHANGED <<ops, loginVars>>

\* api.ts:21-36: the proactive refreshAccessToken settles (auth.ts:58-80), the
\* refreshed record replaces `token` if there is one, the primary fetch goes out.
ProactiveReturns(resp) ==
    /\ pc = "await_proactive"
    /\ LET r == refreshAccessToken(token, resp, now, store)
       IN  /\ store' = r.file
           /\ refreshes' = Append(refreshes, RefreshEntry("proactive", token, resp, r))
           /\ IF r.threw THEN
                  /\ pc' = "done"
                  /\ result' = Threw(UncaughtMsg)
                  /\ UNCHANGED <<token, calls>>
              ELSE
                  /\ token' = IF IsFalsy(r.ret) THEN token ELSE r.ret
                  /\ calls' = Append(calls, Call("resource", "primary", PrimaryBearer(token')))
                  /\ pc' = "await_primary"
                  /\ result' = NoResult
    /\ UNCHANGED <<now, ticks, nreq, resps, before, startedAt, issued>>
    /\ UNCHANGED <<ops, loginVars>>

\* api.ts:29-40 and 65-71: the primary fetch settles; a 401 starts the
\* reactive refresh, anything else settles the request.
PrimaryReturns(resp) ==
    /\ pc = "await_primary"
    /\ resps' = Append(resps, resp)
    /\ IF resp.kind = "http" /\ resp.status = 401 THEN
           /\ pc' = "await_reactive"
           /\ calls' = Append(calls, Call("refresh", "reactive", token.refresh_token))
           /\ result' = NoResult
       ELSE
           /\ pc' = "done"
           /\ result' = Outcome(resp)
           /\ UNCHANGED calls
    /\ UNCHANGED <<store, now, ticks, nreq, token, refreshes, before, startedAt, issued>>
    /\ UNCHANGED <<ops, loginVars>>

\* api.ts:40-54: the reactive refreshAccessToken settles; null ends the
\* request with the "Authentication expired" error, a record starts the retry.
ReactiveReturns(resp) ==
    /\ pc = "await_reactive"
    /\ LET r == refreshAccessToken(token, resp, now, store)
       IN  /\ store' = r.file
           /\ refreshes' = Append(refreshes, RefreshEntry("reactive", token, resp, r))
           /\ IF r.threw THEN
                  /\ pc' = "done"
                  /\ result' = Threw(UncaughtMsg)
                  /\ UNCHANGED calls
              ELSE IF IsFalsy(r.ret) THEN
                  /\ pc' = "done"
                  /\ result' = Threw(AuthExpiredMsg)
                  /\ UNCHANGED calls
              ELSE
                  /\ pc' = "await_retry"
                  /\ result' = NoResult
                  /\ calls' = Append(calls, Call("resource", "retry", RetryBearer(token, r.ret)))
    /\ UNCHANGED <<now, ticks, nreq, token, resps, before, startedAt, issued>>
    /\ UNCHANGED <<ops, loginVars>>

\* Variant: a 401 on the retry starts another refresh.
RetryReturnsAgain(resp) ==
    /\ pc = "await_retry"
    /\ resps' = Append(resps, resp)
    /\ IF resp.kind = "http" /\ resp.status = 401 THEN
           /\ pc' = "await_reactive"
           /\ calls' = Append(calls, Call("refresh", "reactive", token.refresh_token))
           /\ result' = NoResult
       ELSE
           /\ pc' = "done"
           /\ result' = Outcome(resp)
           /\ UNCHANGED calls
    /\ UNCHANGED <<store, now, ticks, nreq, token, refreshes, before, startedAt, issued>>
    /\ UNCHANGED <<ops, loginVars>>

\* api.ts:47-62: the retry settles, and with it the request.
RetryReturns(resp) ==
    /\ pc = "await_retry"
    /\ resps' = Append(resps, resp)
    /\ pc' = "done"
    /\ result' = Outcome(resp)
    /\ UNCHANGED <<store, now, ticks, nreq, token, calls, refreshes, before, startedAt, issued>>
    /\ UNCHANGED <<ops, loginVars>>

\* A millisecond passes.
Tick ==
    /\ ticks < MaxTicks
    /\ ticks' = ticks + 1
    /\ now' = now + 1
    /\ UNCHANGED <<store, nreq, pc, token, result, calls, resps, refreshes, before, startedAt, issued>>
    /\ UNCHANGED <<ops, loginVars>>

Next ==
    \/ Start
    \/ \E resp \in RefreshResponses : ProactiveReturns(resp)
    \/ \E resp \in ResourceResponses : PrimaryReturns(resp)
    \/ \E resp \in RefreshResponses : ReactiveReturns(resp)
    \/ \E resp \in ResourceResponses : RetryReturns(resp)
    \/ Tick

Spec == Init /\ [][Next]_vars

\* ------------------------------------------------------------ properties
\* Number of fetch calls of the running request to an endpoint in a phase.
CountCalls(ep, phase) ==
    Cardinality({i \in DOMAIN calls : calls[i].ep = ep /\ calls[i].phase = phase})

\* The primary call was answered with status 401.
Primary401 == Len(resps) >= 1 /\ resps[1].kind = "http" /\ resps[1].status = 401

\* A completed refreshAccessToken call returned a record.
Succeeded(e) == ~e.threw /\ e.ret.kind = "obj"

\* The completed refreshes of a phase.
RefreshesOf(phase) == {i \in DOMAIN refreshes : refreshes[i].phase = phase}

\* The record loaded at the start of the running request has a parsable
\* expires_at; LifetimeAtStart is then expires_at - now at that moment.
HasExpiry == pc # "idle" /\ before.kind = "obj" /\ before.expires_at.iso
LifetimeAtStart == before.expires_at.ms - startedAt

\* C1: a 401 on the primary call is followed by exactly one reactive refresh;
\* if it returns a record the call is retried exactly once, with the access
\* token the refresh endpoint returned; if it returns null there is no retry
\* and the request fails with the "Authentication expired" error.
C1_ReactiveRefreshThenOneRetry ==
    Primary401 =>
        /\ CountCalls("refresh", "reactive") = 1
        /\ pc = "done" =>
            /\ Cardinality(RefreshesOf("reactive")) = 1
            /\ \A i \in RefreshesOf("reactive") :
                IF Succeeded(refreshes[i]) THEN
                    /\ CountCalls("resource", "retry") = 1
                    /\ Len(resps) = 2
                    /\ calls[Len(calls)] =
                         Call("resource", "retry", refreshes[i].resp.access_token)
                ELSE
                    /\ CountCalls("resource", "retry") = 0
                    /\ Len(resps) = 1
                    /\ calls[Len(calls)].ep = "refresh"
                    /\ result = Threw(AuthExpiredMsg)

\* C1 witness: proactive refresh, 401, reactive refresh returning another
\* access token, retry answered.
C1_Witness ==
    /\ pc = "done"
    /\ Primary401
    /\ Len(refreshes) = 2
    /\ Succeeded(refreshes[1])
    /\ Succeeded(refreshes[2])
    /\ refreshes[2].resp.access_token # refreshes[1].resp.access_token
    /\ Len(resps) = 2

\* C2 as stated: a remaining lifetime of at most 60 s, exactly 60 s included,
\* gives exactly one proactive refresh, issued before the primary call.
C2_ProactiveWithin60sInclusive ==
    (HasExpiry /\ LifetimeAtStart <= BufferMs) =>
        /\ CountCalls("refresh", "proactive") = 1
        /\ calls[1] = Call("refresh", "proactive", before.refresh_token)
        /\ \A i \in DOMAIN calls : calls[i].ep = "resource" => i > 1

\* C2 amended: a remaining lifetime strictly below 60 s gives exactly one
\* proactive refresh, issued before the primary call.
C2_ProactiveBelow60s ==
    (HasExpiry /\ LifetimeAtStart < BufferMs) =>
        /\ CountCalls("refresh", "proactive") = 1
        /\ calls[1] = Call("refresh", "proactive", before.refresh_token)
        /\ \A i \in DOMAIN calls : calls[i].ep = "resource" => i > 1

\* C2 witness: a token with 59.999 s left, refreshed and then used.
C2_Witness ==
    /\ HasExpiry
    /\ LifetimeAtStart = BufferMs - 1
    /\ pc = "done"
    /\ CountCalls("resource", "primary") = 1

\* C3: a remaining lifetime above 60 s gives no proactive refresh: the first
\* call of the request is the primary resource call.
C3_NoProactiveAbove60s ==
    (HasExpiry /\ LifetimeAtStart > BufferMs) =>
        /\ CountCalls("refresh", "proactive") = 0
        /\ calls # <<>>
        /\ calls[1] = Call("resource", "primary", before.access_token)

\* C3 witness: a token with 60.001 s left, used without refresh.
C3_Witness ==
    /\ HasExpiry
    /\ LifetimeAtStart = BufferMs + 1
    /\ pc = "done"
    /\ result.type = "ok"

\* The message names the login command.
NamesLogin(msg) == msg \in {NotAuthenticatedMsg, AuthExpiredMsg}

\* The last resource call of the request was answered with status 401.
Rejected ==
    /\ resps # <<>>
    /\ resps[Len(resps)].kind = "http"
    /\ resps[Len(resps)].status = 401

\* C4: a request that fails because no credential is stored, or because the
\* service answered 401 (to the primary call or to the retry) to the token of
\* a complete stored record, fails with a message that names the login command.
C4_AuthFailureNamesLogin ==
    LET noCredential == before.kind \in {"nofile", "garbage", "null"}
    IN  (pc = "done" /\ result.type = "error"
            /\ (noCredential \/ (IsComplete(before) /\ Rejected)))
        => NamesLogin(result.msg)

\* C5: primary call answered 401 and no refresh of the request returned a
\* record: "Authentication expired", and the store is as before the request.
C5_AllRefreshesFail ==
    (pc = "done" /\ Primary401 /\ \A i \in DOMAIN refreshes : ~Succeeded(refreshes[i]))
        => /\ result = Threw(AuthExpiredMsg)
           /\ store = before

\* C5 witness: proactive and reactive refresh both failed, the reactive one
\* with HTTP 400.
C5_Witness ==
    /\ pc = "done"
    /\ Primary401
    /\ Len(refreshes) = 2
    /\ ~Succeeded(refreshes[1])
    /\ ~Succeeded(refreshes[2])
    /\ refreshes[2].resp.status = 400
    /\ before.kind = "obj"

\* C6: with no loadable record (file missing, unparsable, or JSON null) the
\* request fails with "Not authenticated", issues no fetch and writes nothing.
C6_Unauthenticated ==
    (pc # "idle" /\ before.kind \in {"nofile", "garbage", "null"}) =>
        /\ pc = "done"
        /\ result = Threw(NotAuthenticatedMsg)
        /\ calls = <<>>
        /\ refreshes = <<>>
        /\ store = before

\* C6 witness: a request made with an unparsable token file.
C6_Witness == pc = "done" /\ before.kind = "garbage" /\ nreq = 1

\* C7: a request makes at most two resource calls and at most two refresh
\* calls (one proactive, one reactive); the retry is the last call, and its
\* answer, whatever it is, settles the request.
C7_BoundedCalls ==
    /\ CountCalls("refresh", "proactive") <= 1
    /\ CountCalls("refresh", "reactive") <= 1
    /\ CountCalls("resource", "primary") <= 1
    /\ CountCalls("resource", "retry") <= 1
    /\ Len(calls) <= 4
    /\ \A i \in DOMAIN calls : calls[i].phase = "retry" => i = Len(calls)
    /\ Len(resps) = 2 => pc = "done"

\* C7 witness: two refreshes, two resource calls, the retry answered 401.
C7_Witness ==
    /\ pc = "done"
    /\ Len(calls) = 4
    /\ Len(resps) = 2
    /\ resps[2].status = 401

\* C8: refreshAccessToken never throws; after a network failure or a non-2xx
\* answer it returns null and the token file is as it was before the call.
C8_RefreshNeverRaises ==
    \A i \in DOMAIN refreshes :
        LET e == refreshes[i]
        IN  /\ ~e.threw
            /\ (e.resp.kind = "network" \/ ~Ok(e.resp.status)) =>
                   (e.ret = Null /\ e.post = e.pre)

\* C8 witness: one refresh ended by a network failure, one by HTTP 400.
C8_Witness ==
    /\ Len(refreshes) = 2
    /\ refreshes[1].resp.kind = "network"
    /\ refreshes[2].resp.kind = "http"
    /\ refreshes[2].resp.status = 400

\* C9: a refresh that returns a record stores that record; it is the input
\* with access_token set to the returned one and expires_at set to the time of
\* the refresh plus expires_in, refresh_token and user kept; so the stored
\* refresh_token and user stay those written at login.
C9_RefreshFrame ==
    /\ \A i \in DOMAIN refreshes :
        LET e == refreshes[i]
        IN  Succeeded(e) =>
              /\ e.post = e.ret
              /\ e.ret.access_token = e.resp.access_token
              /\ e.ret.expires_at = IsoString(e.at + e.resp.expires_in * 1000)
              /\ e.ret.refresh_token = e.input.refresh_token
              /\ e.ret.user = e.input.user
    /\ store.kind = "obj" =>
          (store.refresh_token = issued.refresh_token /\ store.user = issued.user)

\* C9 witness: two refreshes returning records at different times.
C9_Witness ==
    /\ Len(refreshes) = 2
    /\ Succeeded(refreshes[1])
    /\ Succeeded(refreshes[2])
    /\ refreshes[2].at > refreshes[1].at
    /\ store.refresh_token = "R1"
    /\ store.access_token # "A1"

\* The refreshes of the running request that returned a record.
SucceededRefreshes == {i \in DOMAIN refreshes : Succeeded(refreshes[i])}

\* C10: during and after a request the store differs from the store at its
\* start only if a refresh of the request returned a record; it then holds
\* the record of the last such refresh, also when the request has failed.
C10_StoreChangesOnlyByRefresh ==
    pc # "idle" =>
        IF SucceededRefreshes = {}
        THEN store = before
        ELSE \E i \in SucceededRefreshes :
                /\ \A j \in SucceededRefreshes : j <= i
                /\ store = refreshes[i].ret

\* C10 witness: a request that refreshed and then failed.
C10_Witness ==
    /\ pc = "done"
    /\ result.type = "error"
    /\ SucceededRefreshes # {}
    /\ store # before

\* C11: the primary call carries the access token returned by the proactive
\* refresh when there was one and it returned a record, and the access token
\* loaded from the file otherwise; a proactive refresh that returns null is
\* still followed by the primary call.
C11_PrimaryBearer ==
    /\ \A i \in DOMAIN calls :
          calls[i].phase = "primary" =>
              IF \E j \in RefreshesOf("proactive") : Succeeded(refreshes[j])
              THEN \A j \in RefreshesOf("proactive") :
                      calls[i].cred = refreshes[j].resp.access_token
              ELSE calls[i].cred = before.access_token
    /\ RefreshesOf("proactive") # {} => CountCalls("resource", "primary") = 1

\* C11 witness: the proactive refresh failed and the primary call went out
\* with the loaded token.
C11_Witness ==
    /\ pc = "done"
    /\ Len(refreshes) >= 1
    /\ refreshes[1].phase = "proactive"
    /\ ~Succeeded(refreshes[1])
    /\ calls[2] = Call("resource", "primary", "A1")
    /\ result.type = "ok"

\* ------------------------------------------- the token file on its own
\* Specification SpecStore: loadToken, saveToken and deleteToken (auth.ts)
\* called in any order on any file content.

\* What the token file can hold when an operation is called.
FileContents ==
    {NoFile, EmptyFile, Garbage, Unreadable, JsonNull, EmptyObject,
     TokenData("A1", "R1", IsoString(StartMs + BufferMs), "U1")}

\* The records handed to saveToken.
SaveArgs ==
    {TokenData(a, "R1", IsoString(StartMs + 3600 * 1000), "U1") : a \in NewAccessTokens}

\* One completed file operation, for the history.
OpEntry(op, arg, threw, ret, post) ==
    [op |-> op, arg |-> arg, threw |-> threw, ret |-> ret, pre |-> store, post |-> post]

InitStore ==
    /\ store \in FileContents
    /\ now = StartMs
    /\ ticks = 0
    /\ nreq = 0
    /\ pc = "idle"
    /\ token = Null
    /\ result = NoResult
    /\ calls = <<>>
    /\ resps = <<>>
    /\ refreshes = <<>>
    /\ before = store
    /\ startedAt = now
    /\ issued = store
    /\ ops = <<>>
    /\ lpc = "idle"
    /\ interval = 0
    /\ lresult = NoResult
    /\ flow = <<>>
    /\ lbefore = store
    /\ dresp = [kind |-> "none", status |-> 0, body |-> "notjson",
                error |-> "undefined", interval |-> 0]
    /\ OthersAtRest

\* The variables of apiRequest.
clientVars == <<nreq, pc, token, result, calls, resps, refreshes, before, startedAt>>

\* The variables the file operations and the login script leave alone.
apiVars == <<clientVars, otherVars>>

\* loadToken() is called (auth.ts:27-37).
DoLoad ==
    /\ Len(ops) < MaxOps
    /\ LET r == loadTokenCall(store)
       IN  ops' = Append(ops, OpEntry("load", Null, r.threw, r.ret, store))
    /\ UNCHANGED <<store, now, ticks, issued, apiVars, loginVars>>

\* saveToken(tokenData) is called (auth.ts:39-44); a throwing call is
\* recorded with threw = TRUE.
DoSave(tokenData, wok) ==
    /\ Len(ops) < MaxOps
    /\ LET r == saveToken(store, tokenData, wok)
       IN  /\ store' = r.file
           /\ ops' = Append(ops, OpEntry("save", tokenData, r.threw, Null, r.file))
    /\ UNCHANGED <<now, ticks, issued, apiVars, loginVars>>

\* deleteToken() is called (auth.ts:46-52).
DoDelete ==
    /\ Len(ops) < MaxOps
    /\ LET r == deleteTokenCall(store)
       IN  /\ store' = r.file
           /\ ops' = Append(ops, OpEntry("delete", Null, r.threw, Null, r.file))
    /\ UNCHANGED <<now, ticks, issued, apiVars, loginVars>>

NextStore ==
    \/ DoLoad
    \/ \E tokenData \in SaveArgs, wok \in BOOLEAN : DoSave(tokenData, wok)
    \/ DoDelete

SpecStore == InitStore /\ [][NextStore]_vars

\* C12: loadToken never throws, and returns null for a missing file, an
\* empty file, a file that is not JSON and a file that cannot be read.
C12_LoadNeverRaises ==
    \A i \in DOMAIN ops :
        ops[i].op = "load" =>
            /\ ~ops[i].threw
            /\ ops[i].pre.kind \in {"nofile", "empty", "garbage", "unreadable"}
                   => ops[i].ret = Null

\* C12 witness: loadToken called on an empty file, and again once the file
\* has been deleted.
C12_Witness ==
    /\ Len(ops) = 3
    /\ ops[1].op = "load"
    /\ ops[1].pre.kind = "empty"
    /\ ops[3].op = "load"
    /\ ops[3].pre.kind = "nofile"

\* C13: what loadToken hands to apiRequest is a complete record or null: with
\* an incomplete file content (such as {}) apiRequest behaves as with no file
\* and issues no fetch.
C13_IncompleteIsAbsent ==
    (pc # "idle" /\ ~IsComplete(before)) =>
        /\ token = Null
        /\ calls = <<>>
        /\ pc = "done" /\ result = Threw(NotAuthenticatedMsg)

C15_DeleteIdempotent ==
    \A i \in DOMAIN ops :
        ops[i].op = "delete" =>
            /\ ~ops[i].threw
            /\ ops[i].post = NoFile
            /\ (i < Len(ops) /\ ops[i + 1].op = "load") => ops[i + 1].ret = Null
            /\ (i < Len(ops) /\ ops[i + 1].op = "delete") => ops[i + 1].post = ops[i].post

\* C15 witness: a stored record deleted twice, then loaded.
C15_Witness ==
    /\ Len(ops) = 3
    /\ ops[1].op = "delete"
    /\ ops[1].pre.kind = "obj"
    /\ ops[2].op = "delete"
    /\ ops[2].pre = NoFile
    /\ ops[3].op = "load"

\* ------------------------------------------------- the login script
\* Specification SpecLogin: one run of login.ts main(), a process of its own
\* that shares the token file with the server.

\* What the device-code endpoint can answer (login.ts:47-61).  interval is
\* the `interval` member of the payload, in seconds.
DeviceResp(k, st, b, err, iv) ==
    [kind |-> k, status |-> st, body |-> b, error |-> err, interval |-> iv]
Intervals == {1, 5}
DeviceResponses ==
    {DeviceResp("network", 0, "notjson", Undefined, 0)}
    \cup {DeviceResp("http", 400, "obj", "invalid_client", 0)}
    \cup {DeviceResp("http", 400, "obj", Undefined, 5)}
    \cup {DeviceResp("http", 500, "notjson", Undefined, 0)}
    \cup {DeviceResp("http", 200, "notjson", Undefined, 0)}
    \cup {DeviceResp("http", 200, "obj", Undefined, iv) : iv \in Intervals}

\* What the token endpoint can answer (login.ts:68-74).  A payload with an
\* access_token member is a TokenResponse, any other an ErrorResponse.
TokenResp(k, b, a, r, h, e, u, err, desc) ==
    [kind |-> k, body |-> b, access_token |-> a, refresh_token |-> r,
     has_expires_in |-> h, expires_in |-> e, user |-> u,
     error |-> err, error_description |-> desc]
TokenError(err, desc) ==
    TokenResp("http", "obj", Undefined, Undefined, FALSE, 0, Undefined, err, desc)
NoTokenResp == TokenResp("none", "notjson", Undefined, Undefined, FALSE, 0, Undefined,
                         Undefined, Undefined)
TokenSuccesses ==
    {TokenResp("http", "obj", "L1", "LR1", TRUE, e, "U2", Undefined, Undefined) :
        e \in ExpiresInSecs}
TokenResponses ==
    TokenSuccesses
    \cup {TokenResp("http", "obj", "L1", "LR1", FALSE, 0, "U2", Undefined, Undefined)}
    \cup {TokenResp("network", "notjson", Undefined, Undefined, FALSE, 0, Undefined,
                    Undefined, Undefined)}
    \cup {TokenResp("http", "notjson", Undefined, Undefined, FALSE, 0, Undefined,
                    Undefined, Undefined)}
    \cup {TokenError(err, Undefined) :
            err \in {"authorization_pending", "slow_down", "expired_token",
                     "access_denied", Undefined}}
    \cup {TokenError("access_denied", "The user denied the request")}

TimedOutMsg == "Authorization timed out. Please try again."
AuthFailedMsg == "Authentication failed"
RangeErrorMsg == "Invalid time value"

\* Variant: the status of the device-code response is not looked at.
DeviceVerdictNoOkCheck(resp) ==
    IF resp.kind = "network" THEN "network"
    ELSE IF resp.body = "notjson" THEN "notjson"
    ELSE "code"

\* requestDeviceCode (login.ts:46-62): which way the call ends.
DeviceVerdict(resp) ==
    IF resp.kind = "network" THEN "network"
    ELSE IF ~Ok(resp.status) THEN "error"
    ELSE IF resp.body = "notjson" THEN "notjson"
    ELSE "code"

\* error.error || `Failed to get device code: ${response.status}` with
\* error = body or {} (login.ts:57-58)
DeviceErrorMsg(resp) ==
    IF resp.body = "obj" /\ resp.error # Undefined
    THEN resp.error
    ELSE "Failed to get device code: " \o ToString(resp.status)

\* Variant: expired_token is polled again like authorization_pending.
PollVerdictRetryExpired(resp) ==
    IF resp.kind = "network" THEN "network"
    ELSE IF resp.body = "notjson" THEN "notjson"
    ELSE IF resp.access_token # Undefined THEN "token"
    ELSE IF resp.error \in {"authorization_pending", "expired_token"} THEN "pending"
    ELSE IF resp.error = "slow_down" THEN "slow_down"
    ELSE "error"

\* Variant: slow_down is not recognised and ends the flow as an error.
PollVerdictNoSlowDown(resp) ==
    IF resp.kind = "network" THEN "network"
    ELSE IF resp.body = "notjson" THEN "notjson"
    ELSE IF resp.access_token # Undefined THEN "token"
    ELSE IF resp.error = "authorization_pending" THEN "pending"
    ELSE IF resp.error = "expired_token" THEN "expired"
    ELSE "error"

\* One iteration of pollForToken after the sleep (login.ts:68-96): which
\* branch the answer takes.  fetch and response.json() may throw.
PollVerdict(resp) ==
    IF resp.kind = "network" THEN "network"
    ELSE IF resp.body = "notjson" THEN "notjson"
    ELSE IF resp.access_token # Undefined THEN "token"
    ELSE IF resp.error = "authorization_pending" THEN "pending"
    ELSE IF resp.error = "slow_down" THEN "slow_down"
    ELSE IF resp.error = "expired_token" THEN "expired"
    ELSE "error"

\* data.error_description || data.error || "Authentication failed" (login.ts:96)
PollErrorMsg(resp) ==
    IF resp.error_description # Undefined THEN resp.error_description
    ELSE IF resp.error # Undefined THEN resp.error
    ELSE AuthFailedMsg

\* Variant: slow_down leaves the interval as it is.
NextIntervalFlat(iv, verdict) == iv

\* `interval` after an answer that keeps the loop going (login.ts:80-90).
NextInterval(iv, verdict) ==
    IF verdict = "slow_down" THEN iv + SlowDownSecs ELSE iv

\* Variant: expires_in is taken for milliseconds.
LoginExpiryDateMs(resp, nowMs) ==
    IF resp.has_expires_in THEN DateOf(nowMs + resp.expires_in) ELSE InvalidDate

\* new Date(Date.now() + token.expires_in * 1000) (login.ts:109)
LoginExpiryDate(resp, nowMs) ==
    IF resp.has_expires_in THEN DateOf(nowMs + resp.expires_in * 1000) ELSE InvalidDate

\* login.ts saveToken (100-114): builds the record from the payload and
\* replaces the file content; toISOString throws before anything is written
\* when expires_in is missing.
loginSaveToken(file, resp, nowMs) ==
    IF ToISOStringThrows(LoginExpiryDate(resp, nowMs))
    THEN [threw |-> TRUE, file |-> file]
    ELSE [threw |-> FALSE,
          file |-> TokenData(resp.access_token, resp.refresh_token,
                             ToISOString(LoginExpiryDate(resp, nowMs)), resp.user)]

\* One step of the login script, for the history.  n: milliseconds slept
\* ("sleep"), the interval received ("device"), the clock ("save").
FlowEvent(ev, n, resp) == [ev |-> ev, n |-> n, resp |-> resp]

InitLogin ==
    /\ store \in {NoFile, Garbage, TokenData("A1", "R1", IsoString(StartMs + BufferMs), "U1")}
    /\ now = StartMs
    /\ ticks = 0
    /\ nreq = 0
    /\ pc = "idle"
    /\ token = Null
    /\ result = NoResult
    /\ calls = <<>>
    /\ resps = <<>>
    /\ refreshes = <<>>
    /\ before = store
    /\ startedAt = now
    /\ issued = store
    /\ ops = <<>>
    /\ lpc = "idle"
    /\ interval = 0
    /\ lresult = NoResult
    /\ flow = <<>>
    /\ lbefore = store
    /\ dresp = [kind |-> "none", status |-> 0, body |-> "notjson",
                error |-> "undefined", interval |-> 0]
    /\ OthersAtRest

\* Number of polls issued so far.
PollCount == Cardinality({i \in DOMAIN flow : flow[i].ev = "poll"})

\* main() starts: requestDeviceCode issues its fetch (login.ts:116-122, 47-54).
LoginStart ==
    /\ lpc = "idle"
    /\ lpc' = "await_code"
    /\ lbefore' = store
    /\ flow' = <<FlowEvent("request", 0, NoTokenResp)>>
    /\ UNCHANGED <<interval, lresult, dresp>>
    /\ UNCHANGED <<store, now, ticks, issued, ops, apiVars>>

\* The device-code fetch settles (login.ts:56-61); on success main shows the
\* code (124-134) and pollForToken starts its first sleep (137, 65-66); any
\* exception reaches main's catch (153-156).
CodeReturns(resp) ==
    /\ lpc = "await_code"
    /\ dresp' = resp
    /\ LET v == DeviceVerdict(resp)
       IN  IF v = "code" THEN
               /\ lpc' = "sleeping"
               /\ interval' = resp.interval
               /\ lresult' = NoResult
               /\ flow' = flow \o <<FlowEvent("device", resp.interval, NoTokenResp),
                                   FlowEvent("show", 0, NoTokenResp),
                                   FlowEvent("sleep", resp.interval * 1000, NoTokenResp)>>
           ELSE
               /\ lpc' = "done"
               /\ lresult' = Threw(IF v = "network" THEN FetchFailedMsg
                                   ELSE IF v = "notjson" THEN JsonSyntaxMsg
                                   ELSE DeviceErrorMsg(resp))
               /\ flow' = Append(flow, FlowEvent("device", 0, NoTokenResp))
               /\ UNCHANGED interval
    /\ UNCHANGED lbefore
    /\ UNCHANGED <<store, now, ticks, issued, ops, apiVars>>

\* How long the server keeps a device code valid, in seconds: the expires_in
\* member of DeviceCodeResponse (login.ts:21), which main and pollForToken
\* never read.
DeviceLifetimesSecs == {2, 10}

\* Milliseconds since the login script started; its clock starts at StartMs
\* and advances with each sleep.
LoginElapsedMs == now - StartMs

\* Variant: the script gives up by itself once the device code has expired.
WakeUntilExpiry ==
    /\ lpc = "sleeping"
    /\ now' = now + interval * 1000
    /\ IF \E life \in DeviceLifetimesSecs : now' - StartMs > life * 1000
       THEN /\ lpc' = "done"
            /\ lresult' = Threw(TimedOutMsg)
            /\ UNCHANGED flow
       ELSE /\ lpc' = "await_token"
            /\ flow' = Append(flow, FlowEvent("poll", 0, NoTokenResp))
            /\ UNCHANGED lresult
    /\ UNCHANGED <<interval, lbefore, dresp>>
    /\ UNCHANGED <<store, ticks, issued, ops, apiVars>>

\* The sleep of interval * 1000 ms is over and the poll goes out (login.ts:66-72).
Wake ==
    /\ lpc = "sleeping"
    /\ lpc' = "await_token"
    /\ now' = now + interval * 1000
    /\ flow' = Append(flow, FlowEvent("poll", 0, NoTokenResp))
    /\ UNCHANGED <<interval, lresult, lbefore, dresp>>
    /\ UNCHANGED <<store, ticks, issued, ops, apiVars>>

\* The poll settles (login.ts:74-96); a token is saved by main (140); any
\* exception reaches main's catch (153-156).  The server stops answering
\* authorization_pending / slow_down at the MaxPolls-th poll.
TokenReturns(resp) ==
    /\ lpc = "await_token"
    /\ LET v == PollVerdict(resp)
           answer == FlowEvent("answer", 0, resp)
       IN  IF v \in {"pending", "slow_down"} THEN
               /\ PollCount < MaxPolls
               /\ lpc' = "sleeping"
               /\ interval' = NextInterval(interval, v)
               /\ flow' = flow \o <<answer, FlowEvent("sleep", interval' * 1000, NoTokenResp)>>
               /\ UNCHANGED <<store, issued, lresult>>
           ELSE IF v = "token" THEN
               LET saved == loginSaveToken(store, resp, now)
               IN  /\ lpc' = "done"
                   /\ store' = saved.file
                   /\ issued' = IF saved.threw THEN issued ELSE saved.file
                   /\ lresult' = IF saved.threw THEN Threw(RangeErrorMsg)
                                 ELSE Returned("connected")
                   /\ flow' = IF saved.threw THEN Append(flow, answer)
                              ELSE flow \o <<answer, FlowEvent("save", now, NoTokenResp)>>
                   /\ UNCHANGED interval
           ELSE
               /\ lpc' = "done"
               /\ lresult' = Threw(IF v = "network" THEN FetchFailedMsg
                                   ELSE IF v = "notjson" THEN JsonSyntaxMsg
                                   ELSE IF v = "expired" THEN TimedOutMsg
                                   ELSE PollErrorMsg(resp))
               /\ flow' = Append(flow, answer)
               /\ UNCHANGED <<store, issued, interval>>
    /\ UNCHANGED <<lbefore, dresp>>
    /\ UNCHANGED <<now, ticks, ops, apiVars>>

NextLogin ==
    \/ LoginStart
    \/ \E resp \in DeviceResponses : CodeReturns(resp)
    \/ Wake
    \/ \E resp \in TokenResponses : TokenReturns(resp)

SpecLogin == InitLogin /\ [][NextLogin]_vars

\* The login script under fair scheduling: main() runs when the module is
\* loaded (login.ts:157), a fetch settles with a response or a rejection, and
\* the timer of a sleep fires (login.ts:66).
LoginFairness ==
    /\ WF_vars(LoginStart)
    /\ WF_vars(\E resp \in DeviceResponses : CodeReturns(resp))
    /\ WF_vars(Wake)
    /\ WF_vars(\E resp \in TokenResponses : TokenReturns(resp))
SpecLoginFair == InitLogin /\ [][NextLogin]_vars /\ LoginFairness

\* Positions in the history of the login script.
Answers == {i \in DOMAIN flow : flow[i].ev = "answer"}
Sleeps == {i \in DOMAIN flow : flow[i].ev = "sleep"}
Polls == {i \in DOMAIN flow : flow[i].ev = "poll"}
LastAnswer == CHOOSE i \in Answers : \A j \in Answers : j <= i

\* The answer at position i is a JSON payload without access_token whose
\* error member is err.
IsErrorAnswer(i, err) ==
    /\ flow[i].ev = "answer"
    /\ flow[i].resp.kind = "http"
    /\ flow[i].resp.body = "obj"
    /\ flow[i].resp.access_token = Undefined
    /\ flow[i].resp.error = err

\* The answer at position i is a complete success payload.
IsSuccessAnswer(i) ==
    /\ flow[i].ev = "answer"
    /\ flow[i].resp.kind = "http"
    /\ flow[i].resp.body = "obj"
    /\ flow[i].resp.access_token # Undefined
    /\ flow[i].resp.has_expires_in

\* The interval the device-code endpoint gave, in seconds.
ServerInterval == dresp.interval

\* C16: authorization_pending n times and then a success payload: n + 1
\* polls, each right after a sleep of the server's interval, then the record
\* of the payload is stored with expires_at = time of saving + expires_in.
C16_PendingThenSuccess ==
    (/\ lpc = "done"
     /\ Answers # {}
     /\ IsSuccessAnswer(LastAnswer)
     /\ \A i \in Answers \ {LastAnswer} : IsErrorAnswer(i, "authorization_pending"))
    => /\ Cardinality(Polls) = Cardinality(Answers \ {LastAnswer}) + 1
       /\ \A i \in Polls :
            /\ i > 1
            /\ flow[i - 1] = FlowEvent("sleep", ServerInterval * 1000, NoTokenResp)
       /\ flow[Len(flow)].ev = "save"
       /\ store = TokenData(flow[LastAnswer].resp.access_token,
                            flow[LastAnswer].resp.refresh_token,
                            IsoString(flow[Len(flow)].n
                                      + flow[LastAnswer].resp.expires_in * 1000),
                            flow[LastAnswer].resp.user)
       /\ lresult = Returned("connected")

\* C16 witness: two authorization_pending answers, then a token; three polls.
C16_Witness ==
    /\ lpc = "done"
    /\ Cardinality(Polls) = 3
    /\ Cardinality(Answers) = 3
    /\ IsSuccessAnswer(LastAnswer)
    /\ \A i \in Answers \ {LastAnswer} : IsErrorAnswer(i, "authorization_pending")
    /\ store.access_token = "L1"

\* Number of slow_down answers before position i.
SlowDownsBefore(i) ==
    Cardinality({j \in Answers : j < i /\ IsErrorAnswer(j, "slow_down")})

\* C17: the k-th sleep lasts the server's interval plus 5 s for every
\* slow_down answered before it; authorization_pending changes nothing and
\* sleeps never get shorter.
C17_IntervalGrowsBySlowDown ==
    /\ \A i \in Sleeps : flow[i].n = (ServerInterval + 5 * SlowDownsBefore(i)) * 1000
    /\ \A i, j \in Sleeps : i < j => flow[i].n <= flow[j].n
    /\ lpc \in {"sleeping", "await_token"} =>
           interval = ServerInterval + 5 * SlowDownsBefore(Len(flow) + 1)

\* C17 witness: slow_down, then authorization_pending, then a third sleep.
C17_Witness ==
    /\ Cardinality(Sleeps) = 3
    /\ Cardinality(Answers) = 2
    /\ \E i, j \in Answers :
          i < j /\ IsErrorAnswer(i, "slow_down") /\ IsErrorAnswer(j, "authorization_pending")
    /\ flow[Len(flow)].n = (ServerInterval + 5) * 1000

\* C18: an expired_token answer ends the flow with "Authorization timed out":
\* nothing follows it, no poll and no save, and the token file is as it was
\* when the flow started.
C18_ExpiredTokenEndsFlow ==
    \A i \in Answers :
        IsErrorAnswer(i, "expired_token") =>
            /\ i = Len(flow)
            /\ lpc = "done"
            /\ lresult = Threw(TimedOutMsg)
            /\ store = lbefore

\* C18 witness: expired_token answered to the first poll, a record on file.
C18_Witness ==
    /\ lpc = "done"
    /\ Cardinality(Polls) = 1
    /\ IsErrorAnswer(Len(flow), "expired_token")
    /\ lbefore.kind = "obj"

\* The answer at position i is a terminal signal of the server: a payload
\* with an access_token, or an error code other than authorization_pending
\* and slow_down.
IsTerminalSignal(i) ==
    /\ flow[i].resp.kind = "http"
    /\ flow[i].resp.body = "obj"
    /\ \/ flow[i].resp.access_token # Undefined
       \/ /\ flow[i].resp.error # Undefined
          /\ flow[i].resp.error \notin {"authorization_pending", "slow_down"}

\* The answer at position i keeps the loop going.
IsContinue(i) ==
    IsErrorAnswer(i, "authorization_pending") \/ IsErrorAnswer(i, "slow_down")

\* C19 as stated: once polling has started the flow ends only on a terminal
\* signal of the server, never on a network failure or an unparsable answer.
C19_StopsOnlyOnTerminalSignal ==
    (lpc = "done" /\ Answers # {}) => IsTerminalSignal(LastAnswer)

\* C19 amended: the loop ends exactly at the first poll that is not answered
\* authorization_pending or slow_down (a payload of any other kind, or a poll
\* that fails); after authorization_pending and slow_down it sleeps and polls
\* again, and it never ends by itself.
C19_StopsAtFirstOtherAnswer ==
    /\ \A i \in Answers :
          IF IsContinue(i)
          THEN i < Len(flow) /\ flow[i + 1].ev = "sleep"
          ELSE i = LastAnswer /\ lpc = "done"
    /\ (lpc = "done" /\ Polls # {}) =>
          /\ Answers # {}
          /\ ~IsContinue(LastAnswer)
          /\ Cardinality(Answers) = Cardinality(Polls)

\* C19 witness: authorization_pending, then a poll that fails on the network.
C19_Witness ==
    /\ lpc = "done"
    /\ Cardinality(Answers) = 2
    /\ flow[LastAnswer].resp.kind = "network"
    /\ lresult = Threw(FetchFailedMsg)

\* C27: with a token endpoint that eventually answers something other than
\* authorization_pending and slow_down, the login flow eventually terminates;
\* and the script never stops polling by itself: every sleep is followed by
\* another poll, however long ago the device code was issued, and a flow that
\* has polled ends only after an answer other than authorization_pending and
\* slow_down.
C27_PollsUntilToldToStop ==
    /\ (lpc = "await_code") ~> (lpc = "done")
    /\ (lpc = "sleeping") ~> (lpc = "await_token")
    /\ []((lpc = "done" /\ Polls # {}) =>
            /\ Cardinality(Answers) = Cardinality(Polls)
            /\ ~IsContinue(LastAnswer))

\* C27 witness: a poll is in flight although every device-code lifetime has
\* elapsed, after the server has answered authorization_pending or slow_down.
C27_Witness ==
    /\ lpc = "await_token"
    /\ \A life \in DeviceLifetimesSecs : LoginElapsedMs > life * 1000
    /\ Answers # {}
    /\ \A i \in Answers : IsContinue(i)

\* C20: a non-2xx answer to the device-code request ends the flow with the
\* server's error, or with the status-coded message when there is none; no
\* code is shown, nothing is polled, the token file is as it was.
C20_DeviceCodeRejected ==
    (dresp.kind = "http" /\ (dresp.status < 200 \/ dresp.status > 299)) =>
        /\ lpc = "done"
        /\ lresult = Threw(IF dresp.body = "obj" /\ dresp.error # Undefined
                           THEN dresp.error
                           ELSE "Failed to get device code: " \o ToString(dresp.status))
        /\ \A i \in DOMAIN flow : flow[i].ev \notin {"show", "sleep", "poll", "save"}
        /\ store = lbefore

\* C20 witness: HTTP 500 without a JSON body, a record on file.
C20_Witness ==
    /\ lpc = "done"
    /\ dresp.status = 500
    /\ lresult = Threw("Failed to get device code: 500")
    /\ lbefore.kind = "obj"

\* ------------------------------------------------ the base URL of a call
\* What VIBEKIT_API_URL can be: unset, empty, or the URL of a local server.
LocalUrl == "http://localhost:3001"
EnvValues == {Undefined, "", LocalUrl}

\* `process.env.VIBEKIT_API_URL || d`: unset and empty are falsy.
OrDefault(e, d) == IF e = Undefined \/ e = "" THEN d ELSE e

\* auth.ts getApiBaseUrl (54-56)
getApiBaseUrl(e) == OrDefault(e, "https://vibecoderskit.com")

\* login.ts API_BASE_URL (15)
API_BASE_URL(e) == OrDefault(e, "https://vibecoderskit.ai")

\* The base URL of a fetch, by the endpoint it goes to: the device-code
\* request and the token poll (login.ts:47, 68), the refresh (auth.ts:60), the
\* revoke (status.ts:82) and a resource call (api.ts:27-29).
BaseUrlOf(ep, e) ==
    IF ep \in {"device/code", "device/token"} THEN API_BASE_URL(e) ELSE getApiBaseUrl(e)

\* ------------------------------------------------------------ vck_logout
\* What the host can pass as args.revoke.
RevokeArgs == {Undefined, "true", "false"}

\* args?.revoke !== false (status.ts:79)
shouldRevoke(revoke) == revoke # "false"

\* What the revoke endpoint can answer.
RevokeResp(k, st) == [kind |-> k, status |-> st]
NoRevokeResp == RevokeResp("none", 0)
RevokeResponses ==
    {RevokeResp("network", 0)} \cup {RevokeResp("http", st) : st \in {200, 401, 500}}

\* The try block around the revoke fetch (status.ts:81-88): threw says that
\* an exception left the block; the response is not looked at.
revokeTry(resp) == [threw |-> resp.kind = "network"]

\* Variant: no catch around the revoke fetch.
revokeCallNoCatch(resp) == revokeTry(resp)

\* The revoke fetch with its catch (status.ts:81-91).
revokeCall(resp) ==
    LET r == revokeTry(resp)
    IN  IF r.threw THEN [threw |-> FALSE] ELSE r

\* The TypeError of `token.user.email` when the record has no user.
NoUserMsg == "Cannot read properties of undefined (reading 'email')"

\* The text vck_logout returns (status.ts:96-101); reading token.user.email
\* throws when the record has no user member.
LogoutText(tok, revoke) ==
    IF tok.user = Undefined THEN Threw(NoUserMsg)
    ELSE Returned("Disconnected " \o tok.user \o " from VibeCodersKit."
                  \o (IF shouldRevoke(revoke) THEN " Token revoked server-side." ELSE ""))

\* Authorization: `Bearer ${token.access_token}` of the revoke call (status.ts:86)
RevokeBearer(tok) == tok.access_token

\* The text of status.ts:75 (its dash written as -).
AlreadyDisconnectedMsg == "Already disconnected - no stored credentials found."

\* One step of the vck_logout handler, for the history.  during: where
\* apiRequest stood at that moment.
OutEvent(ev, tok, revoke, resp, post) ==
    [ev |-> ev, token |-> tok, revoke |-> revoke, resp |-> resp, post |-> post,
     cred |-> IF ev = "revoke" THEN RevokeBearer(tok) ELSE Undefined,
     during |-> pc]

\* Number of vck_logout calls so far.
LogoutCount == Cardinality({i \in DOMAIN olog : olog[i].ev = "start"})

\* The record the running (or last) vck_logout call loaded, and its argument.
LastStart == CHOOSE i \in DOMAIN olog : olog[i].ev = "start" /\ \A j \in DOMAIN olog : olog[j].ev = "start" => j <= i

\* vck_logout starts (status.ts:70-94, up to the await of the revoke fetch):
\* load, the exit when nothing is stored, then the revoke fetch, or without
\* revocation the deletion and the answer.
LogoutStart(revoke) ==
    /\ opc \in {"idle", "done"}
    /\ LogoutCount < MaxLogouts
    /\ otoken' = loadToken(store)
    /\ LET start == OutEvent("start", otoken', revoke, NoRevokeResp, store)
       IN  IF IsFalsy(otoken') THEN
               /\ opc' = "done"
               /\ oresult' = Returned(AlreadyDisconnectedMsg)
               /\ olog' = Append(olog, start)
               /\ UNCHANGED store
           ELSE IF shouldRevoke(revoke) THEN
               /\ opc' = "await_revoke"
               /\ oresult' = NoResult
               /\ olog' = olog \o <<start, OutEvent("revoke", otoken', revoke,
                                                     NoRevokeResp, store)>>
               /\ UNCHANGED store
           ELSE
               LET d == deleteTokenCall(store)
               IN  /\ store' = d.file
                   /\ opc' = "done"
                   /\ oresult' = LogoutText(otoken', revoke)
                   /\ olog' = olog \o <<start, OutEvent("delete", otoken', revoke,
                                                         NoRevokeResp, d.file)>>
    /\ UNCHANGED <<now, ticks, issued, ops, clientVars, scriptVars>>
    /\ UNCHANGED <<env, dmode, fmode, umask, wpc, wdata, tlog>>

\* The revoke fetch settles (status.ts:89-101): whatever came back, the
\* record is deleted and the answer built; an exception that left the
\* try/catch would end the handler before the deletion.
RevokeReturns(resp) ==
    /\ opc = "await_revoke"
    /\ LET revoke == olog[LastStart].revoke
           answer == OutEvent("answer", otoken, revoke, resp, store)
       IN  IF revokeCall(resp).threw THEN
               /\ opc' = "done"
               /\ oresult' = Threw(FetchFailedMsg)
               /\ olog' = Append(olog, answer)
               /\ UNCHANGED store
           ELSE
               LET d == deleteTokenCall(store)
               IN  /\ store' = d.file
                   /\ opc' = "done"
                   /\ oresult' = LogoutText(otoken, revoke)
                   /\ olog' = olog \o <<answer, OutEvent("delete", otoken, revoke,
                                                          resp, d.file)>>
    /\ UNCHANGED <<now, ticks, issued, ops, clientVars, scriptVars>>
    /\ UNCHANGED <<otoken, env, dmode, fmode, umask, wpc, wdata, tlog>>

\* ------------------------------------------------ the server in a session
\* Specification SpecSession: the server process serving a request whose
\* handler calls apiRequest, and vck_logout.  A request handler starts when
\* its request arrives (index.ts:64-94 keeps no queue and takes no lock), so
\* handlers interleave at their awaits.
\* Specification SpecRelogin: the server process serving such a request
\* while the login script runs as a process of its own.

\* What the token file can hold when the session starts.
SessionStores ==
    {NoFile, EmptyObject}
    \cup {TokenData("A1", "R1", IsoString(StartMs + l), "U1") :
            l \in {BufferMs - 1, 3600 * 1000}}

\* The answers of the service in a session.
SessionRefreshResponses ==
    {RefreshResp("network", 0, "notjson", Undefined, FALSE, 0, TRUE),
     RefreshResp("http", 200, "obj", "A2", TRUE, 3600, TRUE)}
SessionResourceResponses ==
    {ResourceResp("http", 200, "obj", Undefined),
     ResourceResp("http", 401, "obj", Undefined)}
SessionDeviceResponses ==
    {DeviceResp("http", 500, "notjson", Undefined, 0),
     DeviceResp("http", 200, "obj", Undefined, 1)}
SessionTokenResponses ==
    {TokenResp("http", "obj", "L1", "LR1", TRUE, 3600, "U2", Undefined, Undefined),
     TokenError("authorization_pending", Undefined),
     TokenError("access_denied", Undefined)}

InitSession ==
    /\ store \in SessionStores
    /\ env \in EnvValues
    /\ now = StartMs
    /\ ticks = 0
    /\ nreq = 0
    /\ pc = "idle"
    /\ token = Null
    /\ result = NoResult
    /\ calls = <<>>
    /\ resps = <<>>
    /\ refreshes = <<>>
    /\ before = store
    /\ startedAt = now
    /\ issued = store
    /\ ops = <<>>
    /\ lpc = "idle"
    /\ interval = 0
    /\ lresult = NoResult
    /\ flow = <<>>
    /\ lbefore = store
    /\ dresp = [kind |-> "none", status |-> 0, body |-> "notjson",
                error |-> "undefined", interval |-> 0]
    /\ opc = "idle"
    /\ otoken = Null
    /\ oresult = NoResult
    /\ olog = <<>>
    /\ dmode = Mode700
    /\ fmode = IF store.kind = "nofile" THEN NoMode ELSE Mode600
    /\ umask = Umask022
    /\ wpc = "idle"
    /\ wdata = Null
    /\ tlog = <<>>

\* A request arrives whose handler calls apiRequest.
SessionStart == nreq < MaxSessionRequests /\ Start

NextSession ==
    \/ SessionStart
    \/ \E resp \in SessionRefreshResponses : ProactiveReturns(resp)
    \/ \E resp \in SessionResourceResponses : PrimaryReturns(resp)
    \/ \E resp \in SessionRefreshResponses : ReactiveReturns(resp)
    \/ \E resp \in SessionResourceResponses : RetryReturns(resp)
    \/ \E revoke \in RevokeArgs : LogoutStart(revoke)
    \/ \E resp \in RevokeResponses : RevokeReturns(resp)

SpecSession == InitSession /\ [][NextSession]_vars

NextRelogin ==
    \/ SessionStart
    \/ \E resp \in SessionRefreshResponses : ProactiveReturns(resp)
    \/ \E resp \in SessionResourceResponses : PrimaryReturns(resp)
    \/ \E resp \in SessionRefreshResponses : ReactiveReturns(resp)
    \/ \E resp \in SessionResourceResponses : RetryReturns(resp)
    \/ LoginStart
    \/ \E resp \in SessionDeviceResponses : CodeReturns(resp)
    \/ Wake
    \/ \E resp \in SessionTokenResponses : TokenReturns(resp)

SpecRelogin == InitSession /\ [][NextRelogin]_vars

\* Positions in the history of vck_logout.
OutStarts == {i \in DOMAIN olog : olog[i].ev = "start"}
OutDeletes == {i \in DOMAIN olog : olog[i].ev = "delete"}

\* C21: a vck_logout that finds a record deletes it: without revocation at
\* once, with revocation after the revoke call (sent with the access token
\* stored at that moment, the record still on file) has settled, whatever it
\* settled with; the file is then gone, and with a complete record on file
\* the logout answers without error.
C21_LogoutAlwaysDeletes ==
    /\ \A i \in OutStarts :
          olog[i].token.kind = "obj" =>
              /\ i < Len(olog)
              /\ IF shouldRevoke(olog[i].revoke) THEN
                     /\ olog[i + 1].ev = "revoke"
                     /\ olog[i + 1].cred = olog[i + 1].post.access_token
                     /\ olog[i + 1].post.kind = "obj"
                     /\ (i + 1 = Len(olog)) = (opc = "await_revoke" /\ i = LastStart)
                     /\ i + 1 < Len(olog) =>
                            /\ i + 3 <= Len(olog)
                            /\ olog[i + 2].ev = "answer"
                            /\ olog[i + 3].ev = "delete"
                 ELSE olog[i + 1].ev = "delete"
    /\ \A i \in OutDeletes : olog[i].post = NoFile
    /\ (opc = "done" /\ IsComplete(olog[LastStart].token)) =>
          /\ olog[Len(olog)].ev = "delete"
          /\ oresult.type = "ok"

\* C21 witness: the revoke call failed on the network, the record is gone.
C21_Witness ==
    /\ opc = "done"
    /\ Len(olog) >= 4
    /\ olog[Len(olog) - 1].ev = "answer"
    /\ olog[Len(olog) - 1].resp.kind = "network"
    /\ IsComplete(olog[LastStart].token)
    /\ olog[Len(olog)].ev = "delete"
    /\ store = NoFile

\* apiRequest is suspended at one of its awaits.
InFlight == pc \in {"await_proactive", "await_primary", "await_reactive", "await_retry"}

\* C22: handlers do not interleave (stated for a complete record on file):
\* vck_logout never starts while an apiRequest is suspended at an await, and
\* no apiRequest is suspended while vck_logout awaits its revoke call.
C22_NoInterleaving ==
    /\ \A i \in OutStarts :
          IsComplete(olog[i].token) => olog[i].during \in {"idle", "done"}
    /\ ~(InFlight /\ IsComplete(before) /\ opc = "await_revoke")

\* The base URLs of the fetches issued so far: by the login script, by an
\* apiRequest that loaded a complete record, and by vck_logout.
UrlsUsed ==
    {BaseUrlOf("device/code", env) : i \in {j \in DOMAIN flow : flow[j].ev = "request"}}
    \cup {BaseUrlOf("device/token", env) : i \in Polls}
    \cup {BaseUrlOf(calls[i].ep, env) : i \in {j \in DOMAIN calls : IsComplete(before)}}
    \cup {BaseUrlOf("revoke", env) : i \in {j \in DOMAIN olog : olog[j].ev = "revoke"}}

\* C23: the device-code request, the token polls, the refresh, the revoke
\* and the resource calls all go to one base URL, which is VIBEKIT_API_URL
\* when that is set.
C23_OneBaseUrl ==
    /\ Cardinality(UrlsUsed) <= 1
    /\ (env # Undefined /\ env # "") => UrlsUsed \subseteq {env}

\* C28: once vck_logout has deleted the record and as long as no login has
\* run, the token file stays absent, also when a refresh of a request that
\* was in flight at the logout completes afterwards.
C28_LogoutIsFinal ==
    (OutDeletes # {} /\ lpc = "idle") => store = NoFile

\* A login stored a record while the request of refresh entry e was in
\* flight: the file held another refresh_token than the request had loaded
\* when that refresh completed.
NewerLoginBefore(e) ==
    /\ Succeeded(e)
    /\ e.pre.kind = "obj"
    /\ e.input.kind = "obj"
    /\ e.pre.refresh_token # e.input.refresh_token

\* C29 as stated: a refresh that completes after a newer login leaves that
\* login's refresh_token and user on file.
C29_RefreshKeepsNewerLogin ==
    \A i \in DOMAIN refreshes :
        NewerLoginBefore(refreshes[i]) =>
            /\ refreshes[i].post.refresh_token = refreshes[i].pre.refresh_token
            /\ refreshes[i].post.user = refreshes[i].pre.user

\* C29 amended: the last writer wins.  A refresh that returns a record
\* stores the record its request had loaded with access_token and expires_at
\* replaced, whatever the file holds by then; after a newer login the file
\* has the refresh_token and user of the older snapshot.
C29_LastWriterWins ==
    \A i \in DOMAIN refreshes :
        LET e == refreshes[i]
        IN  Succeeded(e) =>
              /\ e.post = [e.input EXCEPT !.access_token = e.resp.access_token,
                                          !.expires_at = e.post.expires_at]
              /\ e.post.expires_at = IsoString(e.at + e.resp.expires_in * 1000)
              /\ NewerLoginBefore(e) =>
                    /\ e.post.refresh_token # e.pre.refresh_token
                    /\ e.post.user = e.input.user

\* C29 witness: the login stored LR1 / U2 while a request that had loaded
\* R1 / U1 was in flight; its refresh then stored R1 / U1 again.
C29_Witness ==
    /\ lpc = "done"
    /\ lresult = Returned("connected")
    /\ Len(refreshes) >= 1
    /\ NewerLoginBefore(refreshes[Len(refreshes)])
    /\ refreshes[Len(refreshes)].pre.refresh_token = "LR1"
    /\ store.refresh_token = "R1"
    /\ store.user = "U1"
    /\ store.access_token = "A2"

\* -------------------------------------- the token file as the system sees it
\* Specification SpecFs: saveToken (auth.ts:39-44, and the same calls in
\* login.ts:100-114) executed by another process step by step, with its
\* permission bits, while this process calls loadToken.

Umask000 == {}
Umask077 == {"gr", "gw", "gx", "or", "ow", "ox"}

\* mkdirSync(CONFIG_DIR, { recursive: true, mode: 0o700 }) behind
\* `if (!existsSync(CONFIG_DIR))` (auth.ts:40-42): a directory that exists is
\* left as it is, a created one gets the mode less the umask.
DirModeAfterSave(d, um) == IF d = NoMode THEN Mode700 \ um ELSE d

\* writeFileSync(TOKEN_FILE, data, { mode: 0o600 }) (auth.ts:43) opens the
\* file with O_WRONLY | O_CREAT | O_TRUNC and mode 0o600: the mode is applied
\* only when the open creates the file.
FileModeAfterSave(f, um) == IF f = NoMode THEN Mode600 \ um ELSE f

\* Directory and file modes before the program first runs; there is no file
\* without a directory.
InitialModes ==
    {<<NoMode, NoMode>>}
    \cup {<<d, f>> : d \in {Mode700, Mode755}, f \in {NoMode, Mode600, Mode644}}

InitFs ==
    /\ \E m \in InitialModes : dmode = m[1] /\ fmode = m[2]
    /\ umask \in {Umask000, Umask022, Umask077}
    /\ store = IF fmode = NoMode THEN NoFile
               ELSE TokenData("A1", "R1", IsoString(StartMs + BufferMs), "U1")
    /\ now = StartMs
    /\ ticks = 0
    /\ nreq = 0
    /\ pc = "idle"
    /\ token = Null
    /\ result = NoResult
    /\ calls = <<>>
    /\ resps = <<>>
    /\ refreshes = <<>>
    /\ before = store
    /\ startedAt = now
    /\ issued = store
    /\ ops = <<>>
    /\ lpc = "idle"
    /\ interval = 0
    /\ lresult = NoResult
    /\ flow = <<>>
    /\ lbefore = store
    /\ dresp = [kind |-> "none", status |-> 0, body |-> "notjson",
                error |-> "undefined", interval |-> 0]
    /\ env = Undefined
    /\ opc = "idle"
    /\ otoken = Null
    /\ oresult = NoResult
    /\ olog = <<>>
    /\ wpc = "idle"
    /\ wdata = Null
    /\ tlog = <<>>

\* saveToken up to the open of writeFileSync (auth.ts:40-43): the directory
\* is made if missing, the file is created if missing and cut to length 0.
WriterOpen(tokenData) ==
    /\ wpc = "idle"
    /\ Len(ops) < MaxOps
    /\ wpc' = "opened"
    /\ wdata' = tokenData
    /\ dmode' = DirModeAfterSave(dmode, umask)
    /\ fmode' = FileModeAfterSave(fmode, umask)
    /\ store' = EmptyFile
    /\ UNCHANGED <<now, ticks, issued, ops, clientVars, scriptVars>>
    /\ UNCHANGED <<env, opc, otoken, oresult, olog, umask, tlog>>

\* A write(2) that takes only part of the buffer: the file holds a prefix of
\* the JSON text (writeFileSync loops until all of it is written).
WriterWritePart ==
    /\ wpc = "opened"
    /\ wpc' = "partial"
    /\ store' = Garbage
    /\ UNCHANGED <<now, ticks, issued, ops, clientVars, scriptVars>>
    /\ UNCHANGED <<env, opc, otoken, oresult, olog, dmode, fmode, umask, wdata, tlog>>

\* The write(2) that completes the buffer; writeFileSync closes the file and
\* saveToken returns.
WriterWriteAll ==
    /\ wpc \in {"opened", "partial"}
    /\ wpc' = "idle"
    /\ store' = wdata
    /\ ops' = Append(ops, OpEntry("save", wdata, FALSE, Null, wdata))
    /\ wdata' = Null
    /\ UNCHANGED <<now, ticks, issued, clientVars, scriptVars>>
    /\ UNCHANGED <<env, opc, otoken, oresult, olog, dmode, fmode, umask, tlog>>

NextFs ==
    \/ \E tokenData \in SaveArgs : WriterOpen(tokenData)
    \/ WriterWritePart
    \/ WriterWriteAll
    \/ DoLoad

SpecFs == InitFs /\ [][NextFs]_vars

\* Positions of the completed saves and of the loads in the history.
SavesDone == {i \in DOMAIN ops : ops[i].op = "save"}
LoadsDone == {i \in DOMAIN ops : ops[i].op = "load"}

\* C24: after every completed save the token file has mode 0600 and its
\* directory mode 0700, whatever modes they had before.
C24_OwnerOnlyAfterSave ==
    (SavesDone # {} /\ wpc = "idle") => (fmode = Mode600 /\ dmode = Mode700)

\* C25: with a complete record on file from the start, a loadToken that runs
\* while another process saves returns that record or a record being saved,
\* never null and never anything else.
C25_LoadSeesWholeRecord ==
    IsComplete(before) =>
        \A i \in LoadsDone : ops[i].ret \in ({before} \cup SaveArgs)

\* ------------------------------------------------------ the tool dispatcher
\* Specification SpecTools: the tools/list and tools/call handlers of
\* index.ts.  Each tool module exports its definitions and a handler whose
\* switch has a case for every name it defines and returns null otherwise.
PromptTools == {"list_prompts", "get_prompt", "save_prompt", "delete_prompt"}
AgentTools == {"list_agents", "get_agent", "save_agent", "delete_agent"}
SkillTools == {"list_skills", "get_skill", "save_skill", "delete_skill"}
UIConfigTools == {"list_ui_configs", "get_ui_config", "save_ui_config", "delete_ui_config"}
StackTools == {"list_stacks", "get_stack", "save_stack", "delete_stack"}
StatusTools == {"vck_status", "vck_logout"}

\* tools/mcps.ts defines and handles these; index.ts does not import it.
MCPConfigTools ==
    {"list_mcp_configs", "get_mcp_config", "save_mcp_config", "delete_mcp_config"}

\* The tools README.md lists under Available Tools.
ReadmeTools ==
    PromptTools \cup AgentTools \cup SkillTools \cup UIConfigTools \cup StackTools
    \cup MCPConfigTools \cup StatusTools

\* What the tools/list handler returns (index.ts:50-61).
ListedTools ==
    PromptTools \cup AgentTools \cup SkillTools \cup UIConfigTools \cup StackTools
    \cup StatusTools

\* The handlers tried in turn by the tools/call handler (index.ts:69-75), each
\* by the names its switch serves.
HandlerChain ==
    <<PromptTools, AgentTools, SkillTools, UIConfigTools, StackTools, StatusTools>>

\* The place in the chain of the first handler that does not return null for
\* the name, NoHandler when all of them do.
NoHandler == "none"
RouteOf(name) ==
    IF \E k \in DOMAIN HandlerChain : name \in HandlerChain[k]
    THEN ToString(CHOOSE k \in DOMAIN HandlerChain :
                     /\ name \in HandlerChain[k]
                     /\ \A j \in DOMAIN HandlerChain : name \in HandlerChain[j] => k <= j)
    ELSE NoHandler

\* The text of index.ts:80.
UnknownToolMsg(name) == "Unknown tool: " \o name

\* The names a host can ask for.
RequestedNames == ReadmeTools \cup {"no_such_tool"}

\* One served request, for the history.
ToolEvent(req, name, tools, route, text) ==
    [req |-> req, name |-> name, tools |-> tools, route |-> route, text |-> text]

InitTools == Init /\ store = NoFile

\* A tools/list request is served (index.ts:50-61).
ListTools ==
    /\ Len(tlog) < MaxToolRequests
    /\ tlog' = Append(tlog, ToolEvent("list", "", ListedTools, NoHandler, ""))
    /\ UNCHANGED <<store, now, ticks, issued, ops, clientVars, scriptVars>>
    /\ UNCHANGED <<env, opc, otoken, oresult, olog, dmode, fmode, umask, wpc, wdata>>

\* A tools/call request is routed (index.ts:64-82): the result of the first
\* handler that returns one, or the 'Unknown tool' error result.
CallTool(name) ==
    /\ Len(tlog) < MaxToolRequests
    /\ tlog' = Append(tlog,
                 ToolEvent("call", name, {}, RouteOf(name),
                           IF RouteOf(name) = NoHandler THEN UnknownToolMsg(name)
                           ELSE "result of handler " \o RouteOf(name)))
    /\ UNCHANGED <<store, now, ticks, issued, ops, clientVars, scriptVars>>
    /\ UNCHANGED <<env, opc, otoken, oresult, olog, dmode, fmode, umask, wpc, wdata>>

NextTools ==
    \/ ListTools
    \/ \E name \in RequestedNames : CallTool(name)

SpecTools == InitTools /\ [][NextTools]_vars

\* C26: every tool the README lists is returned by tools/list, and a call of
\* it is routed to a handler: it never gets the 'Unknown tool' result.
C26_ReadmeToolsServed ==
    \A i \in DOMAIN tlog :
        /\ tlog[i].req = "list" => ReadmeTools \subseteq tlog[i].tools
        /\ (tlog[i].req = "call" /\ tlog[i].name \in ReadmeTools) =>
              /\ tlog[i].route # NoHandler
              /\ tlog[i].text # UnknownToolMsg(tlog[i].name)

\* C30: with requests running one at a time, the resource call in flight
\* (primary or retry) carries as bearer token the access_token of the
\* credential record that is on file since the call was issued.
C30_BearerIsStoredToken ==
    pc \in {"await_primary", "await_retry"} =>
        /\ calls # <<>>
        /\ calls[Len(calls)].ep = "resource"
        /\ calls[Len(calls)].phase = (IF pc = "await_primary" THEN "primary" ELSE "retry")
        /\ store.kind = "obj"
        /\ calls[Len(calls)].cred = store.access_token

\* C30 witness: a retry in flight after a proactive and a reactive refresh
\* have both replaced the access token of a complete record.
C30_Witness ==
    /\ pc = "await_retry"
    /\ Len(refreshes) = 2
    /\ IsComplete(before)
    /\ IsComplete(store)
    /\ refreshes[1].post.access_token # before.access_token
    /\ store.access_token # refreshes[1].post.access_token
    /\ calls[Len(calls)].cred = store.access_token

====
